---------------------------- MODULE Spec2Model ----------------------------
(***************************************************************************)
(* A model of the NVDI visualizer front end:                               *)
(*   - isWithinBounds, the geofence check of VectorMap.tsx,                *)
(*   - VectorMap with its BaseLayerControl, VectorTileLayer and            *)
(*     ClickHandler children, as a state machine over the Leaflet map,     *)
(*   - AreaChartComponent, the chart that shapes the score arrays.         *)
(*                                                                         *)
(* Degrees are kept in tenths of a degree, so 3.5 is 35 and 15.0 is 150:   *)
(* the code only compares coordinates, and comparison is exact on these.   *)
(***************************************************************************)
EXTENDS Integers, Sequences, FiniteSets, TLC

VARIABLES
    \* one call of isWithinBounds
    args, ret,
    \* interleaved calls of isWithinBounds
    calls, defaultBounds,
    \* VectorMap and the children of its MapContainer
    vmMounted, gmReady, markerPos, scriptStatus, childrenMounted, map,
    mapLayers, mapControls, controlRef, layerRefs, cleanupOsm, vectorLayer,
    nextId, nextMap, ctxLat, ctxLng, lastClick,
    \* AreaChartComponent
    chartMounted, nvdiScoresdata, nvdi75Scoredata, loading, chartData,
    ymax, ymin, received, crashed

fnVars == <<args, ret>>
callVars == <<calls, defaultBounds>>
mapVars == <<vmMounted, gmReady, markerPos, scriptStatus, childrenMounted, map,
             mapLayers, mapControls, controlRef, layerRefs, cleanupOsm,
             vectorLayer, nextId, nextMap, ctxLat, ctxLng, lastClick>>
chartVars == <<chartMounted, nvdiScoresdata, nvdi75Scoredata, loading,
               chartData, ymax, ymin, received, crashed>>
vars == <<fnVars, callVars, mapVars, chartVars>>

(***************************************************************************)
(* JavaScript values, as far as isWithinBounds can tell them apart.        *)
(***************************************************************************)

\* a finite number, in tenths of a degree
Num(n) == [t |-> "number", v |-> n]
\* NaN: typeof gives 'number', every comparison with it is false
NaN == [t |-> "NaN", v |-> 0]
\* the text of a number, such as "9" (v is the number it spells)
Str(n) == [t |-> "string", v |-> n]
Undefined == [t |-> "undefined", v |-> 0]
Null == [t |-> "null", v |-> 0]

\* JavaScript's typeof
TypeOf(x) ==
    CASE x.t \in {"number", "NaN"} -> "number"
      [] x.t = "string" -> "string"
      [] x.t = "undefined" -> "undefined"
      [] x.t = "null" -> "object"

\* JavaScript's ToNumber, applied by >= and <= to an operand that is no number
ToNumber(x) ==
    CASE x.t \in {"number", "NaN"} -> x
      [] x.t = "string" -> Num(x.v)
      [] x.t = "undefined" -> NaN
      [] x.t = "null" -> Num(0)

\* a >= b
JsGe(a, b) ==
    LET x == ToNumber(a)
        y == ToNumber(b)
    IN  x.t = "number" /\ y.t = "number" /\ x.v >= y.v

\* a <= b
JsLe(a, b) ==
    LET x == ToNumber(a)
        y == ToNumber(b)
    IN  x.t = "number" /\ y.t = "number" /\ x.v <= y.v

\* a Bounds object
Bounds(n, s, e, w) == [t |-> "object", north |-> n, south |-> s, east |-> e, west |-> w]
\* the bounds argument left out (or passed as undefined)
BoundsOmitted ==
    [t |-> "undefined", north |-> Undefined, south |-> Undefined,
     east |-> Undefined, west |-> Undefined]
\* null passed for the bounds
BoundsNull ==
    [t |-> "null", north |-> Undefined, south |-> Undefined,
     east |-> Undefined, west |-> Undefined]

ETHIOPIA_BOUNDS == Bounds(Num(150), Num(35), Num(480), Num(330))

\* what a call ends with: a returned boolean or a thrown TypeError
Returns(b) == [kind |-> "return", value |-> b]
Throws == [kind |-> "TypeError", value |-> FALSE]
NoResult == [kind |-> "none", value |-> FALSE]

(***************************************************************************)
(* isWithinBounds                                                          *)
(***************************************************************************)

\* a parameter that is always the default, whatever is passed
DefaultParamAlways(bounds, default) == default

\* the default parameter: bounds = ETHIOPIA_BOUNDS when the argument is undefined
DefaultParam(bounds, default) == IF bounds.t = "undefined" THEN default ELSE bounds

\* a guard that rejects only when both coordinates are no numbers
TypeGuardBoth(lat, lng) == TypeOf(lat) # "number" /\ TypeOf(lng) # "number"

\* typeof lat !== 'number' || typeof lng !== 'number'
TypeGuard(lat, lng) == TypeOf(lat) # "number" \/ TypeOf(lng) # "number"

\* a >, a <
JsGt(a, b) == JsGe(a, b) /\ ~JsLe(a, b)
JsLt(a, b) == JsLe(a, b) /\ ~JsGe(a, b)

\* a test that leaves the southern edge out
InRangeSouthOpen(lat, lng, bounds) ==
    /\ JsGt(lat, bounds.south)
    /\ JsLe(lat, bounds.north)
    /\ JsGe(lng, bounds.west)
    /\ JsLe(lng, bounds.east)

\* a test that leaves the eastern and the western edge out
InRangeLngOpen(lat, lng, bounds) ==
    /\ JsGe(lat, bounds.south)
    /\ JsLe(lat, bounds.north)
    /\ JsGt(lng, bounds.west)
    /\ JsLt(lng, bounds.east)

\* lat >= bounds.south && lat <= bounds.north && lng >= bounds.west && lng <= bounds.east
InRange(lat, lng, bounds) ==
    /\ JsGe(lat, bounds.south)
    /\ JsLe(lat, bounds.north)
    /\ JsGe(lng, bounds.west)
    /\ JsLe(lng, bounds.east)

\* the return statement: reading bounds.south of null throws a TypeError
Comparison(lat, lng, bounds) ==
    IF bounds.t = "null" THEN Throws ELSE Returns(InRange(lat, lng, bounds))

isWithinBounds(lat, lng, boundsArg) ==
    LET bounds == DefaultParam(boundsArg, ETHIOPIA_BOUNDS)
    IN  IF TypeGuard(lat, lng) THEN Returns(FALSE) ELSE Comparison(lat, lng, bounds)


(***************************************************************************)
(* The arguments a caller passes.                                          *)
(***************************************************************************)

\* how many half-degree steps around each edge of a rectangle are tried
Margin == 1

\* the edges of the rectangles, and points of the specification's scenarios
LatEdges == {35, 150}
LngEdges == {330, 480}
NumLats == {e + 5 * k : e \in LatEdges, k \in (0 - Margin)..Margin} \cup {20, 90}
NumLngs == {e + 5 * k : e \in LngEdges, k \in (0 - Margin)..Margin} \cup {400, 500}

LatArgs == {Num(n) : n \in NumLats} \cup {NaN, Str(90), Undefined, Null}
LngArgs == {Num(n) : n \in NumLngs} \cup {NaN, Str(400), Undefined, Null}

\* a rectangle south-west of the default one: it holds (2.0, 50.0)
CustomBounds == Bounds(Num(30), Num(10), Num(520), Num(490))

\* rectangles on the default edges, the inverted and the degenerate ones included
EdgeBounds ==
    {Bounds(Num(n), Num(s), Num(e), Num(w)) :
        n \in LatEdges, s \in LatEdges, e \in LngEdges, w \in LngEdges}

\* objects that are no Bounds: {} , text fields, a NaN field
MalformedBounds ==
    { Bounds(Undefined, Undefined, Undefined, Undefined),
      Bounds(Str(150), Str(35), Str(480), Str(330)),
      Bounds(Num(150), NaN, Num(480), Num(330)) }

BoundsArgs ==
    EdgeBounds \cup MalformedBounds \cup {CustomBounds, BoundsOmitted, BoundsNull}

NoArgs == [lat |-> Undefined, lng |-> Undefined, bounds |-> BoundsOmitted]

(***************************************************************************)
(* Interleaved calls: each caller's activation of isWithinBounds, stepped  *)
(* statement by statement, over the one shared ETHIOPIA_BOUNDS object.     *)
(***************************************************************************)

NumCallers == 2
Callers == 1..NumCallers

CallLats == {Num(90), Num(20), Str(90)}
CallLngs == {Num(400), Num(500)}
CallBounds == {BoundsOmitted, CustomBounds, BoundsNull}

IdleFrame ==
    [pc |-> "idle", lat |-> Undefined, lng |-> Undefined, passed |-> BoundsOmitted,
     bounds |-> BoundsOmitted, byDefault |-> FALSE, result |-> NoResult]

\* the object the bounds parameter of caller c refers to, as it is now
CurrentBounds(c) == IF calls[c].byDefault THEN defaultBounds ELSE calls[c].bounds

\* the call is entered: the parameters are bound, bounds to the shared default
\* object when the argument is undefined
Invoke(c, lat, lng, b) ==
    /\ calls[c].pc = "idle"
    /\ calls' = [calls EXCEPT ![c] =
                    [pc |-> "guard", lat |-> lat, lng |-> lng, passed |-> b,
                     bounds |-> b, byDefault |-> (b.t = "undefined"),
                     result |-> NoResult]]
    /\ UNCHANGED <<defaultBounds, fnVars, mapVars, chartVars>>

\* the typeof guard and its early return
GuardStep(c) ==
    /\ calls[c].pc = "guard"
    /\ calls' = [calls EXCEPT ![c] =
                    IF TypeGuard(calls[c].lat, calls[c].lng)
                    THEN [calls[c] EXCEPT !.pc = "done", !.result = Returns(FALSE)]
                    ELSE [calls[c] EXCEPT !.pc = "compare"]]
    /\ UNCHANGED <<defaultBounds, fnVars, mapVars, chartVars>>

\* a comparison that merges the argument into the default object first
CompareStepMerging(c) ==
    /\ calls[c].pc = "compare"
    /\ calls' = [calls EXCEPT ![c] =
                    [calls[c] EXCEPT
                        !.pc = "done",
                        !.result = Comparison(calls[c].lat, calls[c].lng, CurrentBounds(c))]]
    /\ defaultBounds' = IF CurrentBounds(c).t = "object" THEN CurrentBounds(c)
                        ELSE defaultBounds
    /\ UNCHANGED <<fnVars, mapVars, chartVars>>

\* the four comparisons of the return statement
CompareStep(c) ==
    /\ calls[c].pc = "compare"
    /\ calls' = [calls EXCEPT ![c] =
                    [calls[c] EXCEPT
                        !.pc = "done",
                        !.result = Comparison(calls[c].lat, calls[c].lng, CurrentBounds(c))]]
    /\ UNCHANGED <<defaultBounds, fnVars, mapVars, chartVars>>

\* the caller takes the result; the activation is gone
ReturnStep(c) ==
    /\ calls[c].pc = "done"
    /\ calls' = [calls EXCEPT ![c] = IdleFrame]
    /\ UNCHANGED <<defaultBounds, fnVars, mapVars, chartVars>>


(***************************************************************************)
(* The Leaflet map, as far as VectorMap's components act on it: the layers *)
(* and the controls that are on each map.                                  *)
(***************************************************************************)

\* how many maps MapContainer creates in a run; every map is a new object
MaxMaps == 2
Maps == 1..MaxMaps

Layer(kind, id) == [kind |-> kind, id |-> id]
NoLayer == Layer("none", 0)
\* a layers control and the base layers it lists by name
Control(id, entries) == [id |-> id, entries |-> entries]
NoControl == Control(0, {})
Entry(name, layer) == [name |-> name, layer |-> layer]

LatLng(lat, lng) == [set |-> TRUE, lat |-> lat, lng |-> lng]
NoLatLng == [set |-> FALSE, lat |-> 0, lng |-> 0]
Written(v) == [set |-> TRUE, v |-> v]
NotWritten == [set |-> FALSE, v |-> 0]

\* the keys layerRefs.current is given
RefKeys == {"OSM Streets", "osm", "roads", "hybrid"}
EmptyRefs == [k \in RefKeys |-> NoLayer]
\* what a cleanup closure holds: the map and the layer its effect added
NoCleanup == [map |-> 0, layer |-> NoLayer]

\* layer.addTo(map), map.removeLayer(layer)
AddLayer(layers, m, l) == [layers EXCEPT ![m] = @ \cup {l}]
RemoveLayer(layers, m, l) ==
    IF m \in DOMAIN layers THEN [layers EXCEPT ![m] = @ \ {l}] ELSE layers
\* control.addTo(map), control.remove(): a control leaves the map it is on
AddControl(controls, m, c) == [controls EXCEPT ![m] = @ \cup {c}]
RemoveControl(controls, c) == [m \in DOMAIN controls |-> controls[m] \ {c}]

\* what the effects of the MapContainer's children read and write
Leaflet ==
    [layers |-> mapLayers, controls |-> mapControls, controlRef |-> controlRef,
     layerRefs |-> layerRefs, cleanup |-> cleanupOsm, vector |-> vectorLayer,
     nextId |-> nextId]

(***************************************************************************)
(* BaseLayerControl                                                        *)
(***************************************************************************)

\* the first effect: the fallback OSM layer and a control that lists only it
MountEffect(s, m) ==
    LET osm == Layer("osm", s.nextId)
        ctl == Control(s.nextId + 1, {Entry("OSM Streets", osm)})
    IN  [s EXCEPT
            !.layers = AddLayer(@, m, osm),
            !.layerRefs = [@ EXCEPT !["OSM Streets"] = osm],
            !.controls = AddControl(@, m, ctl),
            !.controlRef = ctl,
            !.cleanup = [map |-> m, layer |-> osm],
            !.nextId = @ + 2]

\* the first effect's cleanup: controlRef.current?.remove(); map.removeLayer(osm)
MountCleanup(s) ==
    [s EXCEPT
        !.controls = IF s.controlRef = NoControl THEN @ ELSE RemoveControl(@, s.controlRef),
        !.layers = RemoveLayer(@, s.cleanup.map, s.cleanup.layer),
        !.cleanup = NoCleanup]

\* a swap that forgets to take the old layers off the map
GmReadyEffectKeepingOld(s, m, gm) ==
    IF ~gm \/ s.controlRef = NoControl THEN s
    ELSE
        LET osm == Layer("osm", s.nextId)
            roads == Layer("roads", s.nextId + 1)
            hybrid == Layer("hybrid", s.nextId + 2)
            ctl == Control(s.nextId + 3,
                           {Entry("Google Roads", roads),
                            Entry("Google Satellite", hybrid),
                            Entry("OSM Streets", osm)})
        IN  [s EXCEPT
                !.controls = AddControl(RemoveControl(@, s.controlRef), m, ctl),
                !.layers = AddLayer(@, m, roads),
                !.controlRef = ctl,
                !.layerRefs = [EmptyRefs EXCEPT !["osm"] = osm, !["roads"] = roads,
                                                !["hybrid"] = hybrid],
                !.nextId = @ + 4]

\* the second effect: once Google is ready, the old control and the layers of
\* layerRefs leave the map, Google Roads is added, and a control lists all three
GmReadyEffect(s, m, gm) ==
    IF ~gm \/ s.controlRef = NoControl THEN s
    ELSE
        LET osm == Layer("osm", s.nextId)
            roads == Layer("roads", s.nextId + 1)
            hybrid == Layer("hybrid", s.nextId + 2)
            ctl == Control(s.nextId + 3,
                           {Entry("Google Roads", roads),
                            Entry("Google Satellite", hybrid),
                            Entry("OSM Streets", osm)})
            old == {s.layerRefs[k] : k \in RefKeys}
        IN  [s EXCEPT
                !.controls = AddControl(RemoveControl(@, s.controlRef), m, ctl),
                !.layers = AddLayer([@ EXCEPT ![m] = @ \ old], m, roads),
                !.controlRef = ctl,
                !.layerRefs = [EmptyRefs EXCEPT !["osm"] = osm, !["roads"] = roads,
                                                !["hybrid"] = hybrid],
                !.nextId = @ + 4]

(***************************************************************************)
(* VectorTileLayer                                                         *)
(***************************************************************************)

\* the effect: the vector grid is added to the map
VectorTileEffect(s, m) ==
    LET layer == Layer("vector", s.nextId)
    IN  [s EXCEPT !.layers = AddLayer(@, m, layer),
                  !.vector = [map |-> m, layer |-> layer],
                  !.nextId = @ + 1]

\* its cleanup: map.removeLayer(layer)
VectorTileCleanup(s) ==
    [s EXCEPT !.layers = RemoveLayer(@, s.vector.map, s.vector.layer),
              !.vector = NoCleanup]

(***************************************************************************)
(* VectorMap                                                               *)
(***************************************************************************)

\* the coordinates a click can carry, in tenths of a degree
ClickLats == {20, 90}
ClickLngs == {400, 500}

\* markerPos && <Marker .../>
MarkerShown == markerPos.set

\* the effects' writes reach the variables
Commit(s) ==
    /\ mapLayers' = s.layers
    /\ mapControls' = s.controls
    /\ controlRef' = s.controlRef
    /\ layerRefs' = s.layerRefs
    /\ cleanupOsm' = s.cleanup
    /\ vectorLayer' = s.vector
    /\ nextId' = s.nextId

\* VectorMap is rendered for the first time: its state, and the Script tag
VectorMapMount ==
    /\ UNCHANGED <<fnVars, callVars, chartVars>>
    /\ ~vmMounted
    /\ vmMounted' = TRUE
    /\ markerPos' = NoLatLng
    /\ gmReady' = FALSE
    /\ scriptStatus' = "loading"
    /\ lastClick' = NoLatLng
    /\ UNCHANGED <<childrenMounted, map, mapLayers, mapControls, controlRef,
                   layerRefs, cleanupOsm, vectorLayer, nextId, nextMap, ctxLat, ctxLng>>

\* MapContainer has created its map and renders its children, whose effects
\* run in order: BaseLayerControl's two, then VectorTileLayer's
MapContainerReady ==
    /\ UNCHANGED <<fnVars, callVars, chartVars>>
    /\ vmMounted /\ ~childrenMounted
    /\ nextMap <= MaxMaps
    /\ childrenMounted' = TRUE
    /\ map' = nextMap
    /\ nextMap' = nextMap + 1
    /\ Commit(VectorTileEffect(
                GmReadyEffect(MountEffect(Leaflet, nextMap), nextMap, gmReady), nextMap))
    /\ UNCHANGED <<vmMounted, gmReady, markerPos, scriptStatus, ctxLat, ctxLng, lastClick>>

\* the Script's onLoad: setGmReady(true); BaseLayerControl is rendered again and
\* its second effect, which depends on gmReady, runs
ScriptOnLoad ==
    /\ UNCHANGED <<fnVars, callVars, chartVars>>
    /\ vmMounted /\ scriptStatus = "loading"
    /\ scriptStatus' = "loaded"
    /\ gmReady' = TRUE
    /\ IF childrenMounted
       THEN Commit(GmReadyEffect(Leaflet, map, TRUE))
       ELSE UNCHANGED <<mapLayers, mapControls, controlRef, layerRefs, cleanupOsm,
                        vectorLayer, nextId>>
    /\ UNCHANGED <<vmMounted, markerPos, childrenMounted, map, nextMap, ctxLat,
                   ctxLng, lastClick>>

\* the Script's onError: the failure is logged and nothing else happens
ScriptOnError ==
    /\ UNCHANGED <<fnVars, callVars, chartVars>>
    /\ vmMounted /\ scriptStatus = "loading"
    /\ scriptStatus' = "failed"
    /\ UNCHANGED <<vmMounted, gmReady, markerPos, childrenMounted, map, mapLayers,
                   mapControls, controlRef, layerRefs, cleanupOsm, vectorLayer,
                   nextId, nextMap, ctxLat, ctxLng, lastClick>>

\* a click handler that passes the longitude to setLat and the latitude to setLng
MapClickSwapped(lat, lng) ==
    /\ UNCHANGED <<fnVars, callVars, chartVars>>
    /\ childrenMounted
    /\ ctxLat' = Written(lng)
    /\ ctxLng' = Written(lat)
    /\ markerPos' = LatLng(lat, lng)
    /\ lastClick' = LatLng(lat, lng)
    /\ UNCHANGED <<vmMounted, gmReady, scriptStatus, childrenMounted, map, mapLayers,
                   mapControls, controlRef, layerRefs, cleanupOsm, vectorLayer,
                   nextId, nextMap>>

\* ClickHandler's click: setLat, setLng, and onClick, which is setMarkerPos
MapClick(lat, lng) ==
    /\ UNCHANGED <<fnVars, callVars, chartVars>>
    /\ childrenMounted
    /\ ctxLat' = Written(lat)
    /\ ctxLng' = Written(lng)
    /\ markerPos' = LatLng(lat, lng)
    /\ lastClick' = LatLng(lat, lng)
    /\ UNCHANGED <<vmMounted, gmReady, scriptStatus, childrenMounted, map, mapLayers,
                   mapControls, controlRef, layerRefs, cleanupOsm, vectorLayer,
                   nextId, nextMap>>

\* the map that useMap() gives changes: the effects that depend on it are
\* cleaned up and run again, in the same component with the same refs
MapChange ==
    /\ UNCHANGED <<fnVars, callVars, chartVars>>
    /\ childrenMounted
    /\ nextMap <= MaxMaps
    /\ map' = nextMap
    /\ nextMap' = nextMap + 1
    /\ Commit(VectorTileEffect(
                GmReadyEffect(
                    MountEffect(VectorTileCleanup(MountCleanup(Leaflet)), nextMap),
                    nextMap, gmReady),
                nextMap))
    /\ UNCHANGED <<vmMounted, gmReady, markerPos, scriptStatus, childrenMounted,
                   ctxLat, ctxLng, lastClick>>

\* VectorMap is unmounted: the children's cleanups run, and the components'
\* state and refs are gone
VectorMapUnmount ==
    /\ UNCHANGED <<fnVars, callVars, chartVars>>
    /\ vmMounted
    /\ vmMounted' = FALSE
    /\ childrenMounted' = FALSE
    /\ map' = 0
    /\ markerPos' = NoLatLng
    /\ gmReady' = FALSE
    /\ scriptStatus' = "none"
    /\ lastClick' = NoLatLng
    /\ IF childrenMounted
       THEN Commit([VectorTileCleanup(MountCleanup(Leaflet)) EXCEPT
                        !.controlRef = NoControl, !.layerRefs = EmptyRefs])
       ELSE UNCHANGED <<mapLayers, mapControls, controlRef, layerRefs, cleanupOsm,
                        vectorLayer, nextId>>
    /\ UNCHANGED <<nextMap, ctxLat, ctxLng>>


(***************************************************************************)
(* AreaChartComponent                                                      *)
(***************************************************************************)

\* the longest score array a parent passes
MaxLen == 2
ScoreValues == {-1, 0, 3}

\* numbers with JavaScript's infinities: Math.max() of nothing is -Infinity
Fin(n) == [inf |-> 0, v |-> n]
PosInfinity == [inf |-> 1, v |-> 0]
NegInfinity == [inf |-> -1, v |-> 0]
Plus(x, k) == IF x.inf = 0 THEN Fin(x.v + k) ELSE x
Less(x, y) ==
    \/ x.inf < y.inf
    \/ x.inf = 0 /\ y.inf = 0 /\ x.v < y.v

\* Math.max(...xs), Math.min(...xs)
MathMax(xs) ==
    IF xs = {} THEN NegInfinity
    ELSE Fin(CHOOSE x \in xs : \A y \in xs : y <= x)
MathMin(xs) ==
    IF xs = {} THEN PosInfinity
    ELSE Fin(CHOOSE x \in xs : \A y \in xs : x <= y)

\* a prop: null, or an array of items; item i of an array of scores is of year 2020 + i
NullData == [isNull |-> TRUE, items |-> <<>>]
Data(scores) ==
    [isNull |-> FALSE,
     items |-> [i \in 1..Len(scores) |-> [year |-> 2020 + i, score |-> scores[i]]]]
ScoreSeqs == UNION {[1..n -> ScoreValues] : n \in 0..MaxLen}
DataProps == {NullData} \cup {Data(ss) : ss \in ScoreSeqs}

\* nvdi75Scoredata[index]?.score || 0, for an array
Score75(items75, index) ==
    IF index <= Len(items75) /\ items75[index].score # 0
    THEN items75[index].score
    ELSE 0

\* nvdiScoresdata.map(...)
FormattedData(items, items75) ==
    [i \in 1..Len(items) |->
        [year |-> items[i].year, score |-> items[i].score,
         score75 |-> Score75(items75, i)]]

Scores(items) == {items[i].score : i \in 1..Len(items)}

\* the effect's body throws when an item is mapped and nvdi75Scoredata is null
EffectThrows(data, data75) == ~data.isNull /\ Len(data.items) > 0 /\ data75.isNull

\* the effect on [nvdiScoresdata], run with the props data and data75
ChartEffect(data, data75) ==
    IF data.isNull
    THEN UNCHANGED <<loading, chartData, ymax, ymin, crashed>>
    ELSE IF EffectThrows(data, data75)
    THEN /\ crashed' = TRUE
         /\ UNCHANGED <<loading, chartData, ymax, ymin>>
    ELSE /\ chartData' = FormattedData(data.items, data75.items)
         /\ ymax' = Plus(MathMax(Scores(data.items)), 2)
         /\ ymin' = Plus(MathMin(Scores(data.items)), -2)
         /\ loading' = FALSE
         /\ UNCHANGED crashed

\* the component is mounted with its first props: the useState values, then the effect
ChartMount(data, data75) ==
    /\ UNCHANGED <<fnVars, callVars, mapVars>>
    /\ ~chartMounted
    /\ chartMounted' = TRUE
    /\ nvdiScoresdata' = data
    /\ nvdi75Scoredata' = data75
    /\ received' = ~data.isNull
    /\ ChartEffect(data, data75)

\* the parent renders the component with new props; the effect runs when
\* nvdiScoresdata is another value, or another array of the same content (fresh)
ChartProps(data, data75, fresh) ==
    /\ UNCHANGED <<fnVars, callVars, mapVars>>
    /\ chartMounted /\ ~crashed
    /\ UNCHANGED chartMounted
    /\ nvdiScoresdata' = data
    /\ nvdi75Scoredata' = data75
    /\ IF data # nvdiScoresdata \/ (fresh /\ ~data.isNull)
       THEN /\ received' = (received \/ ~data.isNull)
            /\ ChartEffect(data, data75)
       ELSE UNCHANGED <<received, loading, chartData, ymax, ymin, crashed>>

\* the component is unmounted, and its state is gone
ChartUnmount ==
    /\ UNCHANGED <<fnVars, callVars, mapVars>>
    /\ chartMounted
    /\ chartMounted' = FALSE
    /\ nvdiScoresdata' = NullData
    /\ nvdi75Scoredata' = NullData
    /\ loading' = TRUE
    /\ chartData' = <<>>
    /\ ymax' = Fin(1)
    /\ ymin' = Fin(-1)
    /\ received' = FALSE
    /\ crashed' = FALSE

(***************************************************************************)
(* The specifications                                                      *)
(***************************************************************************)

FnIdle == args = NoArgs /\ ret = NoResult
CallsIdle == calls = [c \in Callers |-> IdleFrame] /\ defaultBounds = ETHIOPIA_BOUNDS
MapIdle ==
    /\ vmMounted = FALSE
    /\ gmReady = FALSE
    /\ markerPos = NoLatLng
    /\ scriptStatus = "none"
    /\ childrenMounted = FALSE
    /\ map = 0
    /\ mapLayers = [m \in Maps |-> {}]
    /\ mapControls = [m \in Maps |-> {}]
    /\ controlRef = NoControl
    /\ layerRefs = EmptyRefs
    /\ cleanupOsm = NoCleanup
    /\ vectorLayer = NoCleanup
    /\ nextId = 1
    /\ nextMap = 1
    /\ ctxLat = NotWritten
    /\ ctxLng = NotWritten
    /\ lastClick = NoLatLng
ChartIdle ==
    /\ chartMounted = FALSE
    /\ nvdiScoresdata = NullData
    /\ nvdi75Scoredata = NullData
    /\ loading = TRUE
    /\ chartData = <<>>
    /\ ymax = Fin(1)
    /\ ymin = Fin(-1)
    /\ received = FALSE
    /\ crashed = FALSE

\* one call of isWithinBounds, on every argument list
Init ==
    /\ args \in [lat : LatArgs, lng : LngArgs, bounds : BoundsArgs]
    /\ ret = NoResult
    /\ CallsIdle /\ MapIdle /\ ChartIdle

Call ==
    /\ ret = NoResult
    /\ ret' = isWithinBounds(args.lat, args.lng, args.bounds)
    /\ UNCHANGED <<args, callVars, mapVars, chartVars>>

Next == Call
Spec == Init /\ [][Next]_vars

\* calls of isWithinBounds by several callers, interleaved
InitCalls == FnIdle /\ CallsIdle /\ MapIdle /\ ChartIdle

NextCalls ==
    \/ \E c \in Callers, lat \in CallLats, lng \in CallLngs, b \in CallBounds :
          Invoke(c, lat, lng, b)
    \/ \E c \in Callers : GuardStep(c)
    \/ \E c \in Callers : CompareStep(c)
    \/ \E c \in Callers : ReturnStep(c)

SpecCalls == InitCalls /\ [][NextCalls]_vars

\* VectorMap on its map
InitMap == FnIdle /\ CallsIdle /\ MapIdle /\ ChartIdle

NextMap ==
    \/ VectorMapMount
    \/ MapContainerReady
    \/ ScriptOnLoad
    \/ ScriptOnError
    \/ \E lat \in ClickLats, lng \in ClickLngs : MapClick(lat, lng)
    \/ VectorMapUnmount
    \/ MapChange

SpecMap == InitMap /\ [][NextMap]_vars

\* AreaChartComponent under its parent's props
InitChart == FnIdle /\ CallsIdle /\ MapIdle /\ ChartIdle

NextChart ==
    \/ \E data \in DataProps, data75 \in DataProps : ChartMount(data, data75)
    \/ \E data \in DataProps, data75 \in DataProps, fresh \in BOOLEAN :
          ChartProps(data, data75, fresh)
    \/ ChartUnmount

SpecChart == InitChart /\ [][NextChart]_vars


(***************************************************************************)
(* The properties                                                          *)
(***************************************************************************)

\* the call of Spec has been made
Called == ret # NoResult

\* typeof number, and a finite number
IsNumber(x) == x.t \in {"number", "NaN"}
IsFinite(x) == x.t = "number"
NonNumeric(x) == x.t \in {"string", "undefined", "null"}

\* a bounds record: an object whose four boundaries are numbers
IsRecord(b) ==
    b.t = "object" /\ IsNumber(b.north) /\ IsNumber(b.south) /\ IsNumber(b.east) /\ IsNumber(b.west)

\* south <= lat <= north and west <= lng <= east, over the numbers (false for a NaN)
Within(lat, lng, b) ==
    /\ IsFinite(lat) /\ IsFinite(lng)
    /\ IsFinite(b.north) /\ IsFinite(b.south) /\ IsFinite(b.east) /\ IsFinite(b.west)
    /\ b.south.v <= lat.v /\ lat.v <= b.north.v
    /\ b.west.v <= lng.v /\ lng.v <= b.east.v

\* north = 15.0, south = 3.5, east = 48.0, west = 33.0
PresetRectangle == Bounds(Num(150), Num(35), Num(480), Num(330))

\* C1: with numeric latitude and longitude and a bounds record, isWithinBounds
\* returns true exactly when south <= lat <= north and west <= lng <= east
C1_TrueIffWithin ==
    (Called /\ IsNumber(args.lat) /\ IsNumber(args.lng) /\ IsRecord(args.bounds))
        => ret = Returns(Within(args.lat, args.lng, args.bounds))

\* (9.0, 40.0) is strictly inside the preset rectangle, and the call returned true
C1_Witness ==
    /\ Called
    /\ args = [lat |-> Num(90), lng |-> Num(400), bounds |-> PresetRectangle]
    /\ ret = Returns(TRUE)

\* C2: when latitude or longitude is no number (a text, an absent value), the
\* call returns false, whatever the other arguments are, and does not throw
C2_NonNumericIsFalse ==
    (Called /\ (NonNumeric(args.lat) \/ NonNumeric(args.lng))) => ret = Returns(FALSE)

\* ("9", 40.0) with the default bounds returned false
C2_Witness ==
    /\ Called
    /\ args = [lat |-> Str(90), lng |-> Num(400), bounds |-> BoundsOmitted]
    /\ ret = Returns(FALSE)

\* C3: every call returns a boolean and none throws, whatever the coordinates
\* and the bounds argument are
C3_Total == Called => (ret.kind = "return" /\ ret.value \in BOOLEAN)

\* the rectangle a call decides by, when it is one with south <= north, west <= east
Effective == IF args.bounds = BoundsOmitted THEN PresetRectangle ELSE args.bounds
WellFormed(b) ==
    /\ b.t = "object"
    /\ IsFinite(b.north) /\ IsFinite(b.south) /\ IsFinite(b.east) /\ IsFinite(b.west)
    /\ b.south.v <= b.north.v /\ b.west.v <= b.east.v

\* C4: a point on an edge of the rectangle (its latitude equal to north or south,
\* or its longitude equal to east or west, the other coordinate in range) is inside
C4_EdgesInside ==
    (Called /\ IsFinite(args.lat) /\ IsFinite(args.lng) /\ WellFormed(Effective)) =>
        LET b == Effective
            onLatEdge == /\ args.lat.v \in {b.north.v, b.south.v}
                         /\ b.west.v <= args.lng.v /\ args.lng.v <= b.east.v
            onLngEdge == /\ args.lng.v \in {b.east.v, b.west.v}
                         /\ b.south.v <= args.lat.v /\ args.lat.v <= b.north.v
        IN  (onLatEdge \/ onLngEdge) => ret = Returns(TRUE)

\* (3.5, 40.0), on the southern edge of the preset rectangle, returned true
C4_Witness ==
    /\ Called
    /\ args = [lat |-> Num(35), lng |-> Num(400), bounds |-> BoundsOmitted]
    /\ ret = Returns(TRUE)

\* C5: without a bounds argument the preset rectangle decides, and with one only
\* the supplied rectangle does: a point outside the preset and inside the supplied
\* rectangle gives true, one inside the preset and outside the supplied gives false
C5_BoundsOverride ==
    (Called /\ IsNumber(args.lat) /\ IsNumber(args.lng)) =>
        /\ args.bounds = BoundsOmitted =>
              ret = Returns(Within(args.lat, args.lng, PresetRectangle))
        /\ (/\ IsRecord(args.bounds)
            /\ Within(args.lat, args.lng, args.bounds)
            /\ ~Within(args.lat, args.lng, PresetRectangle)) => ret = Returns(TRUE)
        /\ (/\ IsRecord(args.bounds)
            /\ ~Within(args.lat, args.lng, args.bounds)
            /\ Within(args.lat, args.lng, PresetRectangle)) => ret = Returns(FALSE)

\* (2.0, 50.0), outside the preset rectangle, returned true with the custom bounds
C5_Witness ==
    /\ Called
    /\ args = [lat |-> Num(20), lng |-> Num(500), bounds |-> CustomBounds]
    /\ ret = Returns(TRUE)

\* C6: under every interleaving, the default bounds object keeps its values, no
\* call changes the bounds record it was given, and a finished call has the
\* result of the same call made alone
C6_Reentrant ==
    /\ defaultBounds = PresetRectangle
    /\ \A c \in Callers :
          /\ calls[c].pc # "idle" => calls[c].bounds = calls[c].passed
          /\ calls[c].pc = "done" =>
                calls[c].result =
                    isWithinBounds(calls[c].lat, calls[c].lng, calls[c].passed)

\* two calls overlapped, one deciding by the default and one by custom bounds,
\* and both are finished
C6_Witness ==
    \E c \in Callers, d \in Callers :
        /\ c # d
        /\ calls[c].pc = "done" /\ calls[c].passed = BoundsOmitted
        /\ calls[c].result = Returns(TRUE)
        /\ calls[d].pc = "done" /\ calls[d].passed = CustomBounds
        /\ calls[d].result = Returns(TRUE)

BaseKinds == {"osm", "roads", "hybrid"}
BaseLayersOn(m) == {l \in mapLayers[m] : l.kind \in BaseKinds}
AllControls == UNION {mapControls[m] : m \in Maps}
Listed(c) == {e.name : e \in c.entries}

\* C7: while BaseLayerControl is mounted, one base layer of its making is on the
\* map and one layers control exists; until Google is ready the layer is the
\* fallback OSM Streets and the control lists only it, afterwards the fallback is
\* off the map, Google Roads is on it, and the control lists all three layers
C7_OneBaseLayer ==
    childrenMounted =>
        /\ Cardinality(BaseLayersOn(map)) = 1
        /\ AllControls = {controlRef}
        /\ controlRef \in mapControls[map]
        /\ ~gmReady =>
              /\ BaseLayersOn(map) = {cleanupOsm.layer}
              /\ cleanupOsm.layer.kind = "osm"
              /\ controlRef.entries = {Entry("OSM Streets", cleanupOsm.layer)}
        /\ gmReady =>
              /\ cleanupOsm.layer \notin mapLayers[map]
              /\ BaseLayersOn(map) = {layerRefs["roads"]}
              /\ layerRefs["roads"].kind = "roads"
              /\ Listed(controlRef) = {"Google Roads", "Google Satellite", "OSM Streets"}
              /\ Entry("Google Roads", layerRefs["roads"]) \in controlRef.entries

\* the swap has happened on a map that carried the fallback layer before
C7_Witness ==
    /\ childrenMounted /\ gmReady /\ scriptStatus = "loaded"
    /\ layerRefs["roads"] \in mapLayers[map]
    /\ layerRefs["roads"].id = cleanupOsm.layer.id + 4

\* C8 (state part): before the first click there is no marker; after a click the
\* marker position and the latitude and longitude written to the location
\* context are those of the latest click
C8_LatestClick ==
    vmMounted =>
        /\ ~lastClick.set => (~markerPos.set /\ ~MarkerShown)
        /\ lastClick.set =>
              /\ markerPos = lastClick
              /\ MarkerShown
              /\ ctxLat = Written(lastClick.lat)
              /\ ctxLng = Written(lastClick.lng)

\* C8: the above in every state, and a marker position once set is not reset to
\* null while VectorMap stays mounted
C8_MarkerFollowsClicks ==
    /\ []C8_LatestClick
    /\ [][(vmMounted /\ vmMounted' /\ markerPos.set) => markerPos'.set]_vars

\* a click at (2.0, 50.0) has placed the marker there and written the context
C8_Witness ==
    /\ vmMounted /\ lastClick.set
    /\ markerPos = LatLng(20, 500)
    /\ ctxLat = Written(20) /\ ctxLng = Written(500)
    /\ MarkerShown

\* C9: no base layer and no layers control of BaseLayerControl is left on a map
\* the component is no longer mounted on
C9_CleanupComplete ==
    \A m \in Maps :
        (~childrenMounted \/ m # map) => (BaseLayersOn(m) = {} /\ mapControls[m] = {})

\* C10: loading is true until a non-null nvdiScoresdata is received; when it is
\* false, chartData has one entry per item of nvdiScoresdata, with score75 from
\* the same index of nvdi75Scoredata (0 when missing), ymin = min - 2,
\* ymax = max + 2 and ymin < score < ymax for every score
C10_ChartFollowsProps ==
    chartMounted =>
        /\ ~received => loading
        /\ (~loading /\ ~nvdiScoresdata.isNull) =>
              LET items == nvdiScoresdata.items
                  items75 == nvdi75Scoredata.items
              IN  /\ Len(chartData) = Len(items)
                  /\ \A i \in 1..Len(items) :
                        /\ chartData[i].year = items[i].year
                        /\ chartData[i].score = items[i].score
                        /\ chartData[i].score75 =
                              IF ~nvdi75Scoredata.isNull /\ i <= Len(items75)
                              THEN items75[i].score ELSE 0
                  /\ ymin = Plus(MathMin(Scores(items)), -2)
                  /\ ymax = Plus(MathMax(Scores(items)), 2)
                  /\ \A x \in Scores(items) : Less(ymin, Fin(x)) /\ Less(Fin(x), ymax)

=============================================================================
